---- MODULE Spec2Model ----
(***************************************************************************)
(* A model of the large-file upload path of nodejs-skynet:                 *)
(*   - splitSizeIntoChunkAlignedParts (src/src/upload.js), the partitioner *)
(*   - uploadData / uploadFile / uploadSmallFile / uploadLargeFile         *)
(*     (src/src/upload.js), with the promise returned to the caller and    *)
(*     the callbacks handed to the resumable-transfer engine               *)
(*   - decodeSkylinkBase64 (src/src/defaults.js)                           *)
(*   - uploadDirectory (src/src/upload.js) and uploadJSONdata              *)
(*     (src/src/defaults.js), the other two uploads, each one POST         *)
(* All sizes are integers.  The options are drawn as integers, so          *)
(* validateInteger (upload.js:83,87) never rejects in this model.          *)
(* A JavaScript number that may be NaN is a sequence: <<n>> is the number  *)
(* n and <<>> is NaN.                                                      *)
(***************************************************************************)
EXTENDS Integers, Sequences, FiniteSets, TLC

\* ------------------------------------------------------------------ bounds
\* Inputs of the partitioner when it is exercised on its own.
MaxTotalSize == 9
MaxPartCount == 4
MaxChunkSize == 4

\* Inputs of an upload.
MaxSize == 6
MaxLargeFileSize == 3
MaxMultiplier == 2
MaxParallel == 3
MaxRetries == 2

\* Inputs of the decoder: lengths within DecodeLenSlack of the encoded size.
DecodeLenSlack == 4

\* A JavaScript number: <<n>>, or NaN.
NaN == <<>>
Num(n) == <<n>>

\* upload.js:10 takes TUS_CHUNK_SIZE from "./defaults", whose module.exports
\* (defaults.js:117-131) has no such name: it is undefined, and NaN in every
\* arithmetic that uses it.
TUS_CHUNK_SIZE == NaN

VARIABLES
    sp_in,      \* the arguments of one splitSizeIntoChunkAlignedParts call
    sp_out,     \* its outcome: none yet, the parts, or the thrown error
    entry,      \* the function called: "uploadData", "uploadFile",
                \* "uploadDirectory" or "uploadJSONdata"
    sizeInBytes,\* data.length / stat.size
    opts,       \* the merged options of the call
    pc,         \* where the upload is
    route,      \* "small" or "large" once selected; "directory", "json"
    network,    \* the network requests issued so far, in order
    promise,    \* the promise handed to the caller
    tusOpts,    \* what uploadLargeFile configured the engine with
    plan,       \* what the engine got from splitSizeIntoParts
    sessions,   \* the engine's sessions, one per part
    uploadUrl,  \* whether the engine set upload.url
    probe,      \* the HEAD status probe: none, sent, header, no_header, failed
    events,     \* the callbacks and settlements so far, in order
    dec_in,     \* the argument of one decodeSkylinkBase64 call, a sequence of characters
    dec_out     \* its outcome: none yet, the bytes, or the thrown error

splitVars  == <<sp_in, sp_out>>
uploadVars == <<entry, sizeInBytes, opts, pc, route, network, promise, tusOpts,
                plan, sessions, uploadUrl, probe, events>>
decodeVars == <<dec_in, dec_out>>
vars == <<sp_in, sp_out, entry, sizeInBytes, opts, pc, route, network, promise,
          tusOpts, plan, sessions, uploadUrl, probe, events, dec_in, dec_out>>

Min(a, b) == IF a <= b THEN a ELSE b

\* ------------------------------------------------------------ partitioner
\* upload.js:177  new Array(partCount).fill(0)
zeroSizes(partCount) == [i \in 1..partCount |-> 0]

\* upload.js:181  Math.floor(totalSize / chunkSize)
numFullChunksOf(totalSize, chunkSize) == totalSize \div chunkSize

\* upload.js:187  totalSize % chunkSize
leftoverOf(totalSize, chunkSize) == totalSize % chunkSize

\* upload.js:182-184  the loop  partSizes[i % partCount] += chunkSize
\* (JS indexes from 0, the sequence from 1).
RECURSIVE assignChunks(_, _, _, _, _)
assignChunks(partSizes, i, n, partCount, chunkSize) ==
    IF i >= n THEN partSizes
    ELSE assignChunks([partSizes EXCEPT ![(i % partCount) + 1] = @ + chunkSize],
                      i + 1, n, partCount, chunkSize)

\* A slip in the index of the leftover: the clamp to the last part is lost.
\* (JS then writes past the end of partSizes; the parts loop never reads it.)
lastIndexUnclamped(numFullChunks, partCount) == numFullChunks

\* upload.js:194  Math.min(numFullChunks, partCount - 1)
lastIndexOf(numFullChunks, partCount) == Min(numFullChunks, partCount - 1)

\* upload.js:189-196  add the leftover, if any, to partSizes[lastIndex].
\* A JS write past the end of partSizes never reaches the parts loop, which
\* reads the indexes below partCount only.
addLeftover(partSizes, totalSize, partCount, chunkSize) ==
    LET leftover  == leftoverOf(totalSize, chunkSize)
        lastIndex == lastIndexOf(numFullChunksOf(totalSize, chunkSize), partCount)
    IN  IF leftover > 0 /\ (lastIndex + 1) \in DOMAIN partSizes
        THEN [partSizes EXCEPT ![lastIndex + 1] = @ + leftover]
        ELSE partSizes

\* What the stock splitter of a resumable-transfer engine does: equal parts of
\* floor(totalSize / partCount), the last part taking what is left.
evenPartSizes(totalSize, partCount, chunkSize) ==
    [i \in 1..partCount |->
        IF i < partCount THEN totalSize \div partCount
        ELSE totalSize - (partCount - 1) * (totalSize \div partCount)]

\* upload.js:177-196  the sizes of the parts
partSizesOf(totalSize, partCount, chunkSize) ==
    addLeftover(assignChunks(zeroSizes(partCount), 0,
                             numFullChunksOf(totalSize, chunkSize),
                             partCount, chunkSize),
                totalSize, partCount, chunkSize)

\* upload.js:198-207  sizes into {start, end} by a running boundary
RECURSIVE sizesToParts(_, _, _, _)
sizesToParts(partSizes, i, lastBoundary, parts) ==
    IF i >= Len(partSizes) THEN parts
    ELSE sizesToParts(partSizes, i + 1, lastBoundary + partSizes[i + 1],
                      Append(parts, [start |-> lastBoundary,
                                     end   |-> lastBoundary + partSizes[i + 1]]))

\* The third guard with the comparison off by one.
totalSizeGuardStrict(totalSize, chunkSize) == totalSize < chunkSize

\* upload.js:173  if (totalSize <= chunkSize) throw
totalSizeGuard(totalSize, chunkSize) == totalSize <= chunkSize

\* upload.js:164-210  the whole function: the three guards in their order, each
\* throwing a validation error naming its parameter, then the plan.
splitSizeIntoChunkAlignedParts(totalSize, partCount, chunkSize) ==
    IF partCount < 1 THEN [status |-> "error", param |-> "partCount", parts |-> <<>>]
    ELSE IF chunkSize < 1 THEN [status |-> "error", param |-> "chunkSize", parts |-> <<>>]
    ELSE IF totalSizeGuard(totalSize, chunkSize)
         THEN [status |-> "error", param |-> "totalSize", parts |-> <<>>]
    ELSE [status |-> "ok", param |-> "",
          parts  |-> sizesToParts(partSizesOf(totalSize, partCount, chunkSize),
                                  0, 0, <<>>)]

NoSplit == [status |-> "none", param |-> "", parts |-> <<>>]

\* ------------------------------------------------------------ the promise
\* upload.js:120  new Promise((resolve, reject) => ...): the first resolve or
\* reject settles it, and every later call is ignored.
Pending == [state |-> "pending", value |-> ""]
resolveP(p, v) == IF p.state = "pending" THEN [state |-> "resolved", value |-> v] ELSE p
rejectP(p, e)  == IF p.state = "pending" THEN [state |-> "rejected", value |-> e] ELSE p

\* The settlement, if any, that a step made: what the caller observes.
settled(p, q) ==
    IF p.state = "pending" /\ q.state = "resolved" THEN <<"resolve">>
    ELSE IF p.state = "pending" /\ q.state = "rejected" THEN <<"reject">>
    ELSE <<>>

\* ------------------------------------------------------------ the options
\* An option that may be absent (undefined or null) is a sequence of length 0 or 1.
Absent == <<>>

\* retryDelays: an ordered sequence of distinct durations.
Delays(n) == [i \in 1..n |-> 10 * i]

\* upload.js:23, 34  the merged options.  DEFAULT_UPLOAD_OPTIONS is another name
\* "./defaults" does not export, so the merge holds what the client and the
\* call give: the calls drawn here give each of the five options.
OptionSets ==
    [largeFileSize       : 1..MaxLargeFileSize,
     chunkSizeMultiplier : 0..MaxMultiplier,
     numParallelUploads  : 0..MaxParallel,
     staggerPercent      : {Absent, <<50>>, <<101>>},
     retryDelays         : {Delays(n) : n \in 0..MaxRetries}]

\* ------------------------------------------------------- strategy selection
\* The comparison with the threshold itself sent to the small-file path.
isSmallFileInclusive(size, largeFileSize) == size <= largeFileSize

\* upload.js:27, upload.js:41  if (sizeInBytes < opts.largeFileSize)
isSmallFile(size, largeFileSize) == size < largeFileSize

\* ------------------------------------------------------------ uploadLargeFile
\* A validation that forgets numParallelUploads.
validateWithoutParallel(o) ==
    IF o.staggerPercent # Absent
       /\ (o.staggerPercent[1] < 0 \/ o.staggerPercent[1] > 100)
    THEN "staggerPercent"
    ELSE IF o.chunkSizeMultiplier < 1 THEN "opts.chunkSizeMultiplier"
    ELSE ""

\* upload.js:71-87  the checks in their order; "" when the options pass.
validateLargeOpts(o) ==
    IF o.staggerPercent # Absent
       /\ (o.staggerPercent[1] < 0 \/ o.staggerPercent[1] > 100)
    THEN "staggerPercent"
    ELSE IF o.chunkSizeMultiplier < 1 THEN "opts.chunkSizeMultiplier"
    ELSE IF o.numParallelUploads < 1 THEN "opts.numParallelUploads"
    ELSE ""

ValidationErrors == {"staggerPercent", "opts.chunkSizeMultiplier", "opts.numParallelUploads"}

\* Math.ceil(a / b) for a >= 0, b >= 1
ceilDiv(a, b) == (a + b - 1) \div b

\* Math.ceil(a / x) for an integer a >= 0 and a number x that is NaN or >= 1
jsCeilDiv(a, x) == IF x = NaN THEN NaN ELSE Num(ceilDiv(a, x[1]))

\* x * n for a number x that may be NaN and an integer n
jsTimes(x, n) == IF x = NaN THEN NaN ELSE Num(x[1] * n)

\* n > x for an integer n and a number x: false when x is NaN
jsGreater(n, x) == x # NaN /\ n > x[1]

\* upload.js:96-110  numParallelUploads clamped to the number of base chunks:
\* numChunks = Math.ceil(filesize / TUS_CHUNK_SIZE), and parallelUploads
\* becomes numChunks when it is greater.  With numChunks NaN it never is.
clampParallel(filesize, numParallelUploads) ==
    LET numChunks == jsCeilDiv(filesize, TUS_CHUNK_SIZE)
    IN  IF jsGreater(numParallelUploads, numChunks) THEN numChunks[1]
        ELSE numParallelUploads

NoTusOpts == [chunkSize |-> Num(0), parallelUploads |-> 0, staggerPercent |-> Absent,
              splitSizeIntoParts |-> FALSE, retryDelays |-> <<>>]

\* upload.js:89-133  the engine's options.  splitSizeIntoParts and
\* staggerPercent stay null unless parallelUploads > 1.
makeTusOpts(filesize, o) ==
    LET parallelUploads == clampParallel(filesize, o.numParallelUploads)
    IN  [chunkSize          |-> jsTimes(TUS_CHUNK_SIZE, o.chunkSizeMultiplier),
         parallelUploads    |-> parallelUploads,
         staggerPercent     |-> IF parallelUploads > 1 THEN o.staggerPercent ELSE Absent,
         splitSizeIntoParts |-> parallelUploads > 1,
         retryDelays        |-> o.retryDelays]

\* upload.js:114-116  the closure handed to the engine: the partitioner with
\* the chunkSize of upload.js:97.  On a NaN chunkSize (upload.js:164-210) the
\* guards chunkSize < 1 and totalSize <= chunkSize are false, numFullChunks is
\* NaN and the chunk loop (i < NaN) never runs, leftover is NaN and
\* leftover > 0 is false: every part size stays 0.
splitSizeIntoParts(totalSize, partCount, chunkSize) ==
    IF chunkSize # NaN
    THEN splitSizeIntoChunkAlignedParts(totalSize, partCount, chunkSize[1])
    ELSE IF partCount < 1
         THEN [status |-> "error", param |-> "partCount", parts |-> <<>>]
         ELSE [status |-> "ok", param |-> "",
               parts  |-> sizesToParts(zeroSizes(partCount), 0, 0, <<>>)]

\* An onError that never rejects.
onErrorSwallowed(p, error) == p

\* upload.js:134-139  onError: reject with the response body, or the error.
onError(p, error) == rejectP(p, error)

\* upload.js:154-155  the template string of the header's value: an absent
\* header is undefined, and prints as "undefined".
skylinkUri(hasHeader) ==
    IF hasHeader THEN "sia://<skylink>" ELSE "sia://undefined"

\* An onSuccess that resolves with the upload's location at once.
onSuccessResolvesAtOnce(p, url) ==
    IF ~url THEN rejectP(p, "'upload.url' was not set")
    ELSE resolveP(p, "sia://<upload.url>")

\* upload.js:140-145  onSuccess up to its await: without upload.url it
\* rejects and returns; with it, the promise is left as it is and the HEAD
\* request goes out.
onSuccessSync(p, url) ==
    IF ~url THEN rejectP(p, "'upload.url' was not set") ELSE p

\* -------------------------------------------------------------- an upload
Idle == /\ entry = "" /\ sizeInBytes = 0 /\ pc = "idle" /\ route = ""
        /\ opts = [largeFileSize |-> 1, chunkSizeMultiplier |-> 1,
                   numParallelUploads |-> 1, staggerPercent |-> Absent,
                   retryDelays |-> <<>>]
        /\ network = <<>> /\ promise = Pending /\ tusOpts = NoTusOpts
        /\ plan = NoSplit /\ sessions = <<>> /\ uploadUrl = FALSE
        /\ probe = "none" /\ events = <<>>

NoDecode == [status |-> "none", error |-> "", bytes |-> <<>>]
DecodeIdle == dec_in = <<>> /\ dec_out = NoDecode

Init ==
    /\ sp_in = [totalSize |-> 0, partCount |-> 0, chunkSize |-> 0]
    /\ sp_out = NoSplit
    /\ entry = ""
    /\ sizeInBytes \in 0..MaxSize
    /\ opts \in OptionSets
    /\ pc = "start"
    /\ route = ""
    /\ network = <<>>
    /\ promise = Pending
    /\ tusOpts = NoTusOpts
    /\ plan = NoSplit
    /\ sessions = <<>>
    /\ uploadUrl = FALSE
    /\ probe = "none"
    /\ events = <<>>
    /\ DecodeIdle

FreshSession == [status |-> "running", failures |-> 0, consumed |-> <<>>]

\* upload.js:27-30, 41-44  the size test and the call of uploadSmallFile or
\* uploadLargeFile, up to the first await of either:
\* upload.js:47-61  uploadSmallFile issues the POST and awaits it;
\* upload.js:70-161 uploadLargeFile validates, configures the engine and
\* starts it; a throw before the promise is made rejects the async call.
Upload(e) ==
    /\ entry' = e
    /\ IF isSmallFile(sizeInBytes, opts.largeFileSize)
       THEN /\ route' = "small"
            /\ network' = Append(network, "POST")
            /\ pc' = "small_wait"
            /\ UNCHANGED <<promise, tusOpts, events>>
       ELSE /\ route' = "large"
            /\ LET err == validateLargeOpts(opts) IN
               IF err # ""
               THEN /\ promise' = rejectP(promise, err)
                    /\ events' = events \o settled(promise, promise')
                    /\ pc' = "done"
                    /\ UNCHANGED <<tusOpts, network>>
               ELSE /\ tusOpts' = makeTusOpts(sizeInBytes, opts)
                    /\ pc' = "engine_start"
                    /\ UNCHANGED <<promise, network, events>>
    /\ UNCHANGED <<dec_in, dec_out, sp_in, sp_out, sizeInBytes, opts, plan, sessions, uploadUrl, probe>>

\* upload.js:22-31  uploadData: the size is data.length, and the call runs on
\* to the first await of uploadSmallFile or uploadLargeFile.
UploadData ==
    /\ pc = "start"
    /\ Upload("uploadData")

\* upload.js:33-36, 220-224  uploadFile and uploadDirectory: the call merges
\* the options and suspends at  await fs.promises.stat(path).
StatCall(e) ==
    /\ pc = "start"
    /\ entry' = e
    /\ pc' = "stat_wait"
    /\ UNCHANGED <<dec_in, dec_out, sp_in, sp_out, sizeInBytes, opts, route, network, promise,
                   tusOpts, plan, sessions, uploadUrl, probe, events>>

\* upload.js:36, 224  the stat fails (no such path): the await throws and the
\* async call rejects, before any route is taken.
StatFailure ==
    /\ pc = "stat_wait"
    /\ promise' = rejectP(promise, "ENOENT")
    /\ events' = events \o settled(promise, promise')
    /\ pc' = "done"
    /\ UNCHANGED <<dec_in, dec_out, sp_in, sp_out, entry, sizeInBytes, opts, route, network,
                   tusOpts, plan, sessions, uploadUrl, probe>>

\* upload.js:36-44  uploadFile after the stat answered: the size is stat.size.
UploadFileStat ==
    /\ pc = "stat_wait"
    /\ entry = "uploadFile"
    /\ Upload("uploadFile")

\* upload.js:224-272  uploadDirectory after the stat answered: a path that is
\* no directory throws; otherwise the files are put in the form and the POST
\* goes out.
UploadDirectoryStat(isDirectory) ==
    /\ pc = "stat_wait"
    /\ entry = "uploadDirectory"
    /\ IF isDirectory
       THEN /\ route' = "directory"
            /\ network' = Append(network, "POST")
            /\ pc' = "post_wait"
            /\ UNCHANGED <<promise, events>>
       ELSE /\ promise' = rejectP(promise, "Given path is not a directory")
            /\ events' = events \o settled(promise, promise')
            /\ pc' = "done"
            /\ UNCHANGED <<route, network>>
    /\ UNCHANGED <<dec_in, dec_out, sp_in, sp_out, entry, sizeInBytes, opts, tusOpts, plan,
                   sessions, uploadUrl, probe>>

\* defaults.js:92-108  uploadJSONdata: the form and the POST, awaited.
UploadJSONdata ==
    /\ pc = "start"
    /\ entry' = "uploadJSONdata"
    /\ route' = "json"
    /\ network' = Append(network, "POST")
    /\ pc' = "post_wait"
    /\ UNCHANGED <<dec_in, dec_out, sp_in, sp_out, sizeInBytes, opts, promise, tusOpts, plan,
                   sessions, uploadUrl, probe, events>>

\* upload.js:266-274, defaults.js:102-114  the POST of uploadDirectory or of
\* uploadJSONdata answers: the prefixed skylink, or the skylink with its
\* short form; a failed request is thrown to the caller.
PostResponse(ok) ==
    /\ pc = "post_wait"
    /\ promise' = IF ~ok THEN rejectP(promise, "request failed")
                  ELSE IF entry = "uploadDirectory"
                       THEN resolveP(promise, "sia://<skylink>")
                       ELSE resolveP(promise, "{skylink, shortskylink}")
    /\ events' = events \o <<"post_resp">> \o settled(promise, promise')
    /\ pc' = "done"
    /\ UNCHANGED <<dec_in, dec_out, sp_in, sp_out, entry, sizeInBytes, opts, route, network, tusOpts,
                   plan, sessions, uploadUrl, probe>>

\* upload.js:55-67  the POST's response: the skylink of the body, formatted,
\* or the request's failure thrown to the caller.
SmallResponse(ok) ==
    /\ pc = "small_wait"
    /\ promise' = IF ok THEN resolveP(promise, "sia://<skylink>")
                  ELSE rejectP(promise, "request failed")
    /\ events' = events \o <<"post_resp">> \o settled(promise, promise')
    /\ pc' = "done"
    /\ UNCHANGED <<dec_in, dec_out, sp_in, sp_out, entry, sizeInBytes, opts, route, network, tusOpts,
                   plan, sessions, uploadUrl, probe>>

\* The engine opens the source and starts: with parallelUploads > 1 it calls
\* splitSizeIntoParts(totalSize, partCount) (upload.js:114-116) and starts one
\* session per part; otherwise one session over the whole stream.  A throw of
\* the splitter is reported through onError.
EngineStart ==
    /\ pc = "engine_start"
    /\ IF tusOpts.splitSizeIntoParts
       THEN LET p == splitSizeIntoParts(sizeInBytes, tusOpts.parallelUploads,
                                        tusOpts.chunkSize)
            IN  /\ plan' = p
                /\ IF p.status = "error"
                   THEN /\ promise' = onError(promise, p.param)
                        /\ events' = events \o <<"onError">> \o settled(promise, promise')
                        /\ pc' = "done"
                        /\ UNCHANGED <<sessions, network>>
                   ELSE /\ sessions' = [i \in 1..Len(p.parts) |-> FreshSession]
                        /\ network' = Append(network, "TUS")
                        /\ pc' = "engine"
                        /\ UNCHANGED <<promise, events>>
       ELSE /\ sessions' = <<FreshSession>>
            /\ network' = Append(network, "TUS")
            /\ pc' = "engine"
            /\ UNCHANGED <<plan, promise, events>>
    /\ UNCHANGED <<dec_in, dec_out, sp_in, sp_out, entry, sizeInBytes, opts, route, tusOpts, uploadUrl, probe>>

\* A transient transport failure of session i: retried after the next
\* duration of retryDelays (upload.js:124), or, with none left, permanent:
\* the engine abandons the upload and calls onError.
SessionFailure(i) ==
    /\ pc = "engine"
    /\ i \in DOMAIN sessions
    /\ sessions[i].status = "running"
    /\ LET s == sessions[i]
           n == s.failures + 1
       IN  IF s.failures < Len(tusOpts.retryDelays)
           THEN /\ sessions' = [sessions EXCEPT ![i] =
                       [status |-> "running", failures |-> n,
                        consumed |-> Append(s.consumed, tusOpts.retryDelays[n])]]
                /\ UNCHANGED <<promise, events, pc>>
           ELSE /\ sessions' = [sessions EXCEPT ![i] =
                       [status |-> "failed", failures |-> n, consumed |-> s.consumed]]
                /\ promise' = onError(promise, "transport error")
                /\ events' = events \o <<"onError">> \o settled(promise, promise')
                /\ pc' = "done"
    /\ UNCHANGED <<dec_in, dec_out, sp_in, sp_out, entry, sizeInBytes, opts, route, network, tusOpts,
                   plan, uploadUrl, probe>>

\* Session i delivers its last chunk.
SessionComplete(i) ==
    /\ pc = "engine"
    /\ i \in DOMAIN sessions
    /\ sessions[i].status = "running"
    /\ sessions' = [sessions EXCEPT ![i].status = "done"]
    /\ UNCHANGED <<dec_in, dec_out, sp_in, sp_out, entry, sizeInBytes, opts, pc, route, network, promise,
                   tusOpts, plan, uploadUrl, probe, events>>

\* Every session is done: the engine reports success, with upload.url set or
\* not.  upload.js:140-153  onSuccess rejects without a url, and otherwise
\* issues the HEAD probe and awaits it.
EngineSuccess(url) ==
    /\ pc = "engine"
    /\ \A i \in DOMAIN sessions : sessions[i].status = "done"
    /\ uploadUrl' = url
    /\ promise' = onSuccessSync(promise, url)
    /\ events' = events \o <<"onSuccess">> \o settled(promise, promise')
    /\ IF url
       THEN /\ network' = Append(network, "HEAD")
            /\ probe' = "sent"
            /\ pc' = "probe_wait"
       ELSE /\ pc' = "done"
            /\ UNCHANGED <<network, probe>>
    /\ UNCHANGED <<dec_in, dec_out, sp_in, sp_out, entry, sizeInBytes, opts, route, tusOpts, plan, sessions>>

\* upload.js:154-155  the probe responds, with the skynet-skylink header or
\* without it: the promise is resolved with the prefix and the header's value.
ProbeResponse(hasHeader) ==
    /\ pc = "probe_wait"
    /\ probe' = IF hasHeader THEN "header" ELSE "no_header"
    /\ promise' = resolveP(promise, skylinkUri(hasHeader))
    /\ events' = events \o <<"head_resp">> \o settled(promise, promise')
    /\ pc' = "done"
    /\ UNCHANGED <<dec_in, dec_out, sp_in, sp_out, entry, sizeInBytes, opts, route, network, tusOpts,
                   plan, sessions, uploadUrl>>

\* upload.js:147  the probe fails: the await throws inside the async onSuccess,
\* whose own promise nobody holds; neither resolve nor reject is called.
ProbeFailure ==
    /\ pc = "probe_wait"
    /\ probe' = "failed"
    /\ events' = Append(events, "head_failed")
    /\ pc' = "done"
    /\ UNCHANGED <<dec_in, dec_out, sp_in, sp_out, entry, sizeInBytes, opts, route, network, promise,
                   tusOpts, plan, sessions, uploadUrl>>

Next ==
    \/ UploadData
    \/ \E e \in {"uploadFile", "uploadDirectory"} : StatCall(e)
    \/ StatFailure
    \/ UploadFileStat
    \/ \E d \in BOOLEAN : UploadDirectoryStat(d)
    \/ UploadJSONdata
    \/ \E ok \in BOOLEAN : PostResponse(ok)
    \/ \E ok \in BOOLEAN : SmallResponse(ok)
    \/ EngineStart
    \/ \E i \in 1..(MaxParallel + 1) : SessionFailure(i)
    \/ \E i \in 1..(MaxParallel + 1) : SessionComplete(i)
    \/ \E url \in BOOLEAN : EngineSuccess(url)
    \/ \E h \in BOOLEAN : ProbeResponse(h)
    \/ ProbeFailure

Spec == Init /\ [][Next]_vars

\* ------------------------------------------- the partitioner on its own
InitSplit ==
    /\ sp_in \in [totalSize : 0..MaxTotalSize,
                  partCount : 0..MaxPartCount,
                  chunkSize : 0..MaxChunkSize]
    /\ sp_out = NoSplit
    /\ Idle
    /\ DecodeIdle

SplitCall ==
    /\ sp_out.status = "none"
    /\ sp_out' = splitSizeIntoChunkAlignedParts(sp_in.totalSize, sp_in.partCount,
                                                sp_in.chunkSize)
    /\ UNCHANGED sp_in
    /\ UNCHANGED uploadVars
    /\ UNCHANGED decodeVars

NextSplit == SplitCall

SpecSplit == InitSplit /\ [][NextSplit]_vars

\* ------------------------------------------------------- decodeSkylinkBase64
\* defaults.js:59
BASE64_ENCODED_SKYLINK_SIZE == 46
\* defaults.js:64
RAW_SKYLINK_SIZE == 34

\* The characters the inputs are made of: two of the base64 alphabet, the two
\* URL-safe ones, the two they stand for, the padding character, and one
\* outside every alphabet.
Chars == {"A", "Q", "-", "_", "+", "/", "=", "!"}

\* The reverse lookup table of the decoder behind toByteArray (defaults.js:5):
\* the value of a base64 character, of "-" (62) and of "_" (63); any other
\* character looks up undefined, which the bit operations take as 0.
revLookup(c) ==
    CASE c = "A" -> 0
      [] c = "Q" -> 16
      [] c = "+" -> 62
      [] c = "-" -> 62
      [] c = "/" -> 63
      [] c = "_" -> 63
      [] OTHER -> 0

\* The 0-based index of the first "=", or -1.
indexOfPad(b64) ==
    IF \E i \in 1..Len(b64) : b64[i] = "="
    THEN (CHOOSE i \in 1..Len(b64) :
              b64[i] = "=" /\ \A j \in 1..(i - 1) : b64[j] # "=") - 1
    ELSE -1

\* The value of the character at 0-based index i; past the end it is 0.
valAt(b64, i) == IF (i + 1) \in DOMAIN b64 THEN revLookup(b64[i + 1]) ELSE 0

\* toByteArray (defaults.js:81), as the base64 decoder computes it:
\*   a length that is not a multiple of 4 throws;
\*   validLen is the index of the first "=" (the length when there is none),
\*   placeHoldersLen is 0 when there is none and 4 - validLen % 4 otherwise;
\*   the array has (validLen + placeHoldersLen) * 3 / 4 - placeHoldersLen
\*   bytes, zero-filled (a negative length throws);
\*   each whole group of 4 characters below validLen (below validLen - 4 when
\*   there are placeholders) gives 3 bytes, and 2 or 1 placeholders give 1 or 2
\*   bytes more from the characters that follow.
toByteArray(b64) ==
    IF Len(b64) % 4 > 0
    THEN [status |-> "error", error |-> "Invalid string. Length must be a multiple of 4",
          bytes |-> <<>>]
    ELSE
    LET pad             == indexOfPad(b64)
        validLen        == IF pad = -1 THEN Len(b64) ELSE pad
        placeHoldersLen == IF validLen = Len(b64) THEN 0 ELSE 4 - (validLen % 4)
        byteLength      == ((validLen + placeHoldersLen) * 3) \div 4 - placeHoldersLen
        len             == IF placeHoldersLen > 0 THEN validLen - 4 ELSE validLen
        groups          == IF len <= 0 THEN 0 ELSE (len + 3) \div 4
        iEnd            == 4 * groups
        quad(g)         == valAt(b64, 4 * g) * 262144 + valAt(b64, 4 * g + 1) * 4096
                           + valAt(b64, 4 * g + 2) * 64 + valAt(b64, 4 * g + 3)
        tmp2            == valAt(b64, iEnd) * 4 + (valAt(b64, iEnd + 1) \div 16)
        tmp1            == valAt(b64, iEnd) * 1024 + valAt(b64, iEnd + 1) * 16
                           + (valAt(b64, iEnd + 2) \div 4)
        byteAt(j)       ==
            IF j < 3 * groups
            THEN CASE j % 3 = 0 -> (quad(j \div 3) \div 65536) % 256
                   [] j % 3 = 1 -> (quad(j \div 3) \div 256) % 256
                   [] OTHER     -> quad(j \div 3) % 256
            ELSE IF placeHoldersLen = 2 /\ j = 3 * groups THEN tmp2 % 256
            ELSE IF placeHoldersLen = 1 /\ j = 3 * groups THEN (tmp1 \div 256) % 256
            ELSE IF placeHoldersLen = 1 /\ j = 3 * groups + 1 THEN tmp1 % 256
            ELSE 0
    IN  IF byteLength < 0
        THEN [status |-> "error", error |-> "Invalid typed array length", bytes |-> <<>>]
        ELSE [status |-> "ok", error |-> "",
              bytes |-> [j \in 1..byteLength |-> byteAt(j - 1)]]

\* defaults.js:80  .replace(/-/g, "+").replace(/_/g, "/")
fromUrlEncoding(skylink) ==
    [i \in 1..Len(skylink) |->
        IF skylink[i] = "-" THEN "+" ELSE IF skylink[i] = "_" THEN "/" ELSE skylink[i]]

\* defaults.js:72-82  the length check, the padding, the translation of the
\* URL-safe characters, and toByteArray on the result.
decodeSkylinkBase64(skylink) ==
    IF Len(skylink) # BASE64_ENCODED_SKYLINK_SIZE
    THEN [status |-> "error", error |-> "Skylink is not 46 bytes long.", bytes |-> <<>>]
    ELSE toByteArray(fromUrlEncoding(skylink \o <<"=", "=">>))

\* The inputs: a run of "A" with the character at one place replaced.
DecodeInputs ==
    { [i \in 1..n |-> IF i = k THEN c ELSE "A"] :
        n \in (BASE64_ENCODED_SKYLINK_SIZE - DecodeLenSlack)
              ..(BASE64_ENCODED_SKYLINK_SIZE + DecodeLenSlack),
        k \in 1..(BASE64_ENCODED_SKYLINK_SIZE + DecodeLenSlack),
        c \in Chars }

InitDecode ==
    /\ dec_in \in DecodeInputs
    /\ dec_out = NoDecode
    /\ sp_in = [totalSize |-> 0, partCount |-> 0, chunkSize |-> 0]
    /\ sp_out = NoSplit
    /\ Idle

DecodeCall ==
    /\ dec_out.status = "none"
    /\ dec_out' = decodeSkylinkBase64(dec_in)
    /\ UNCHANGED dec_in
    /\ UNCHANGED splitVars
    /\ UNCHANGED uploadVars

NextDecode == DecodeCall

SpecDecode == InitDecode /\ [][NextDecode]_vars

\* ------------------------------------------------------------ claims
partLen(p) == p.end - p.start

\* C1: every plan returned by splitSizeIntoChunkAlignedParts has exactly
\* partCount parts, the first part starts at 0, each part's end is the next
\* part's start, every part has start <= end, and the last part ends at
\* totalSize.
C1_PlanPartitionsTotal ==
    sp_out.status = "ok" =>
        LET parts == sp_out.parts IN
        /\ Len(parts) = sp_in.partCount
        /\ parts[1].start = 0
        /\ \A i \in 1..(Len(parts) - 1) : parts[i].end = parts[i + 1].start
        /\ \A i \in 1..Len(parts) : parts[i].start <= parts[i].end
        /\ parts[Len(parts)].end = sp_in.totalSize

\* A plan of three parts or more with a leftover and more full chunks than parts.
C1_Witness ==
    /\ sp_out.status = "ok"
    /\ sp_in.partCount >= 3
    /\ leftoverOf(sp_in.totalSize, sp_in.chunkSize) > 0
    /\ numFullChunksOf(sp_in.totalSize, sp_in.chunkSize) > sp_in.partCount

\* C2: in every plan at most one part has a length that is not an exact
\* multiple of chunkSize.
C2_AtMostOneUnaligned ==
    sp_out.status = "ok" =>
        Cardinality({i \in 1..Len(sp_out.parts) :
                        partLen(sp_out.parts[i]) % sp_in.chunkSize # 0}) <= 1

\* A plan of two parts or more in which one part is not aligned.
C2_Witness ==
    /\ sp_out.status = "ok"
    /\ sp_in.partCount >= 2
    /\ sp_in.chunkSize >= 2
    /\ Cardinality({i \in 1..Len(sp_out.parts) :
                        partLen(sp_out.parts[i]) % sp_in.chunkSize # 0}) = 1

\* C3: in a large-file upload whose options pass validation and whose
\* parallelism, as uploadLargeFile clamped it, is greater than 1, the partitioner called with (filesize,
\* clamped parallelism, TUS_CHUNK_SIZE * chunkSizeMultiplier) returns a plan, and
\* no part of the plan has zero length.
C3_ClampedPlanHasNoEmptyPart ==
    (/\ route = "large"
     /\ validateLargeOpts(opts) = ""
     /\ tusOpts.parallelUploads > 1
     /\ plan.status # "none")
    => /\ plan.status = "ok"
       /\ \A i \in 1..Len(plan.parts) : partLen(plan.parts[i]) > 0

\* C4 as stated: with partCount = 1 and chunkSize >= 1 the call never fails
\* and returns the single part [0, totalSize); and a failure happens only when
\* partCount < 1, chunkSize < 1, or (totalSize <= chunkSize and partCount > 1).
C4_AsStated ==
    sp_out.status # "none" =>
        /\ (sp_in.partCount = 1 /\ sp_in.chunkSize >= 1) =>
              /\ sp_out.status = "ok"
              /\ sp_out.parts = <<[start |-> 0, end |-> sp_in.totalSize]>>
        /\ sp_out.status = "error" =>
              \/ sp_in.partCount < 1
              \/ sp_in.chunkSize < 1
              \/ (sp_in.totalSize <= sp_in.chunkSize /\ sp_in.partCount > 1)

\* C4 amended: the call fails exactly when partCount < 1, chunkSize < 1 or
\* totalSize <= chunkSize, whatever partCount is; with partCount = 1 and
\* totalSize > chunkSize >= 1 it returns the single part [0, totalSize).
C4_SinglePartAndFailures ==
    sp_out.status # "none" =>
        /\ sp_out.status = "error" <=>
              \/ sp_in.partCount < 1
              \/ sp_in.chunkSize < 1
              \/ sp_in.totalSize <= sp_in.chunkSize
        /\ (sp_out.status = "ok" /\ sp_in.partCount = 1) =>
              sp_out.parts = <<[start |-> 0, end |-> sp_in.totalSize]>>

\* One part asked for, over a total larger than a chunk, with a leftover.
C4_Witness ==
    /\ sp_out.status = "ok"
    /\ sp_in.partCount = 1
    /\ sp_in.totalSize > sp_in.chunkSize
    /\ sp_in.totalSize % sp_in.chunkSize # 0
    /\ sp_out.parts = <<[start |-> 0, end |-> sp_in.totalSize]>>

zeroOption == opts.chunkSizeMultiplier = 0 \/ opts.numParallelUploads = 0

\* uploadData or uploadFile got the payload's size and took its route.
sized == entry \in {"uploadData", "uploadFile"} /\ route \in {"small", "large"}

failedValidationBeforeNetwork ==
    /\ promise.state = "rejected"
    /\ promise.value \in ValidationErrors
    /\ network = <<>>

\* C5 as stated: an upload of any size whose options have chunkSizeMultiplier = 0
\* or numParallelUploads = 0 fails with a validation error, with no network
\* request issued.
C5_AsStated ==
    (sized /\ zeroOption) => failedValidationBeforeNetwork

\* C5 amended: an upload (uploadData, or uploadFile once the stat of the file
\* answered) of at least largeFileSize bytes whose options have
\* chunkSizeMultiplier = 0 or numParallelUploads = 0 fails with a validation
\* error, with no network request issued.
C5_LargeUploadValidatesFirst ==
    (sized /\ zeroOption /\ sizeInBytes >= opts.largeFileSize)
        => failedValidationBeforeNetwork

\* A large upload rejected for numParallelUploads = 0 alone.
C5_Witness ==
    /\ pc = "done"
    /\ route = "large"
    /\ opts.numParallelUploads = 0
    /\ opts.chunkSizeMultiplier >= 1
    /\ promise = [state |-> "rejected", value |-> "opts.numParallelUploads"]
    /\ network = <<>>

\* C6: in a large-file upload the resolve of the promise is preceded by
\* onSuccess and by the probe's response, and no resolve follows a reject; the
\* promise holds an identifier exactly when a resolve happened.
C6_NoIdentifierBeforeSuccessAndProbe ==
    route = "large" =>
        /\ \A i \in 1..Len(events) :
              events[i] = "resolve" =>
                  /\ \E j \in 1..(i - 1) : events[j] = "onSuccess"
                  /\ \E k \in 1..(i - 1) : events[k] = "head_resp"
        /\ \A i \in 1..Len(events) : \A j \in (i + 1)..Len(events) :
              events[i] = "reject" => events[j] # "resolve"
        /\ promise.state = "resolved" <=> (\E i \in 1..Len(events) : events[i] = "resolve")
        /\ promise.state = "resolved" => probe \in {"header", "no_header"}

\* A parallel upload resolved after onSuccess and the probe's response.
C6_Witness ==
    /\ route = "large"
    /\ Len(sessions) >= 2
    /\ promise.state = "resolved"
    /\ events = <<"onSuccess", "head_resp", "resolve">>

\* C7: when every session completed and the probe's response has no
\* skynet-skylink header, the upload fails and returns no identifier.
C7_MissingHeaderFails ==
    probe = "no_header" => promise.state = "rejected"

\* C8: a session that fails transiently once more than retryDelays has
\* durations has consumed them all, in order, and fails the whole upload: the
\* promise is rejected, whatever the other sessions did; a session that failed
\* less often is still retried.
C8_RetryExhaustionFailsUpload ==
    \A i \in DOMAIN sessions :
        /\ sessions[i].status = "failed" =>
              /\ promise.state = "rejected"
              /\ sessions[i].consumed = tusOpts.retryDelays
              /\ sessions[i].failures = Len(tusOpts.retryDelays) + 1
        /\ sessions[i].failures > Len(tusOpts.retryDelays) =>
              sessions[i].status = "failed"
        /\ sessions[i].status # "failed" =>
              sessions[i].consumed = SubSeq(tusOpts.retryDelays, 1, sessions[i].failures)

\* One session exhausted a non-empty retryDelays while another had completed.
C8_Witness ==
    /\ Len(tusOpts.retryDelays) >= 2
    /\ \E i, j \in DOMAIN sessions :
          /\ i # j
          /\ sessions[i].status = "failed"
          /\ sessions[j].status = "done"
    /\ promise.state = "rejected"

\* C9: in uploadData and uploadFile, once the size is known (for uploadFile,
\* once the stat answered; a failed stat takes no route and sends nothing),
\* a payload smaller than largeFileSize goes the small-file way and opens
\* no resumable session (and sends no probe); a payload of largeFileSize bytes
\* or more goes the large-file way and never issues the small-file POST.
C9_StrategySelection ==
    entry \in {"uploadData", "uploadFile"} =>
        /\ (pc # "stat_wait" /\ promise.value # "ENOENT") => route \in {"small", "large"}
        /\ sizeInBytes < opts.largeFileSize =>
              /\ route \in {"", "small"}
              /\ \A i \in 1..Len(network) : network[i] = "POST"
        /\ sizeInBytes >= opts.largeFileSize =>
              /\ route \in {"", "large"}
              /\ \A i \in 1..Len(network) : network[i] # "POST"

\* A payload of exactly largeFileSize bytes that opened a resumable session.
C9_Witness ==
    /\ sizeInBytes = opts.largeFileSize
    /\ route = "large"
    /\ Len(network) >= 1
    /\ network[1] = "TUS"

\* C10: decodeSkylinkBase64 fails for every input whose length is not 46, and
\* every input it succeeds on gives exactly 34 bytes.
C10_DecodeLengths ==
    dec_out.status # "none" =>
        /\ Len(dec_in) # BASE64_ENCODED_SKYLINK_SIZE => dec_out.status = "error"
        /\ dec_out.status = "ok" => Len(dec_out.bytes) = RAW_SKYLINK_SIZE

\* C11: a large-file upload whose engine run has ended (the engine called
\* onSuccess or onError) and in which nothing is left to run has settled the
\* promise, as a resolve or as a reject, exactly once; and when the probe
\* failed after onSuccess, the promise is rejected.
C11_TerminatedRunSettlesPromise ==
    (/\ route = "large"
     /\ pc = "done"
     /\ \E i \in 1..Len(events) : events[i] \in {"onSuccess", "onError"})
    => /\ promise.state \in {"resolved", "rejected"}
       /\ Cardinality({i \in 1..Len(events) : events[i] \in {"resolve", "reject"}}) = 1
       /\ probe = "failed" => promise.state = "rejected"

====
